---- MODULE Spec2Model ----
(***************************************************************************)
(* State core of the crux form application, handler-split version:         *)
(* FormHandler (shared/src/events/form.rs) and AddressHandler              *)
(* (shared/src/events/address.rs) composed by a root reducer.              *)
(*                                                                         *)
(* Strings typed by the user are sequences of one-character strings, so    *)
(* that length, parsing, pattern matching and concatenation are computed.  *)
(* Fixed messages of the program are plain strings.                        *)
(***************************************************************************)
EXTENDS Integers, Sequences, FiniteSets, TLC

VARIABLES
  form,         \* FormHandler.form
  suggestions,  \* AddressHandler.suggestions
  inflight,     \* HTTP requests issued and not yet resolved, in issue order
  pending,      \* events emitted by a command and not yet dispatched
  effects       \* effects emitted since the last event taken from outside

vars == <<form, suggestions, inflight, pending, effects>>

----------------------------------------------------------------------------
(* Bounds of the model *)

\* most HTTP requests outstanding at once
MaxInFlight == 2

----------------------------------------------------------------------------
(* Option<T> *)

None == [some |-> FALSE]
Some(x) == [some |-> TRUE, val |-> x]

----------------------------------------------------------------------------
(* Characters *)

Lower == {"a","b","c","d","e","f","g","h","i","j","k","l","m",
          "n","o","p","q","r","s","t","u","v","w","x","y","z"}
Upper == {"A","B","C","D","E","F","G","H","I","J","K","L","M",
          "N","O","P","Q","R","S","T","U","V","W","X","Y","Z"}
Digits == {"0","1","2","3","4","5","6","7","8","9"}

DigitVal(c) ==
  CASE c = "0" -> 0 [] c = "1" -> 1 [] c = "2" -> 2 [] c = "3" -> 3
    [] c = "4" -> 4 [] c = "5" -> 5 [] c = "6" -> 6 [] c = "7" -> 7
    [] c = "8" -> 8 [] c = "9" -> 9

\* A u32 is kept as two 16-bit halves (the checker's integers are narrower
\* than 32 bits unsigned): the number is hi * 2^16 + lo.
U32Half == 2^16
U32(n) == [hi |-> n \div U32Half, lo |-> n % U32Half]

\* n >= k and n <= k for a u32 n and a literal k below 2^16
U32_ge(n, k) == n.hi > 0 \/ n.lo >= k
U32_le(n, k) == n.hi = 0 /\ n.lo <= k
U32_lt(n, k) == ~U32_ge(n, k)
U32_gt(n, k) == ~U32_le(n, k)

\* str::parse::<u32>().ok(): an optional '+', then one or more decimal
\* digits, the number not above u32::MAX; anything else is None. Each digit
\* multiplies the accumulator by ten and adds, failing on overflow.
RECURSIVE parse_digits(_, _)
parse_digits(s, acc) ==
  IF s = <<>> THEN Some(acc)
  ELSE LET t == acc.lo * 10 + DigitVal(Head(s))
           h == acc.hi * 10 + t \div U32Half
       IN  IF h >= U32Half THEN None
           ELSE parse_digits(Tail(s), [hi |-> h, lo |-> t % U32Half])

parse_u32(s) ==
  LET body == IF s # <<>> /\ Head(s) = "+" THEN Tail(s) ELSE s
  IN  IF body = <<>> THEN None
      ELSE IF \E i \in 1..Len(body) : body[i] \notin Digits THEN None
      ELSE parse_digits(body, U32(0))

----------------------------------------------------------------------------
(* Validatable *)

FieldIdent == {"Username", "Email", "Age", "Address"}

\* Regex ^[a-zA-Z0-9._%+-]+@[a-zA-Z0-9.-]+\.[a-zA-Z]{2,}$
EmailLocalChars == Lower \cup Upper \cup Digits \cup {".", "_", "%", "+", "-"}
EmailDomainChars == Lower \cup Upper \cup Digits \cup {".", "-"}
EmailTldChars == Lower \cup Upper

email_regex_is_match(s) ==
  \E i \in 1..Len(s) : \E j \in 1..Len(s) :
    /\ s[i] = "@"
    /\ s[j] = "."
    /\ 1 < i
    /\ i + 1 < j
    /\ j + 2 <= Len(s)
    /\ \A k \in 1..(i - 1) : s[k] \in EmailLocalChars
    /\ \A k \in (i + 1)..(j - 1) : s[k] \in EmailDomainChars
    /\ \A k \in (j + 1)..Len(s) : s[k] \in EmailTldChars

\* is_valid of a username that accepts every text that is not empty
Username_is_valid_nonempty(v) == v # <<>>

Username_is_valid(v) == Len(v) >= 3

Username_error_message(v) ==
  IF v = <<>> THEN Some("Username cannot be empty")
  ELSE IF Len(v) < 3 THEN Some("Username must be at least 3 characters")
  ELSE None

Email_is_valid(v) == v # <<>> /\ email_regex_is_match(v)

Email_error_message(v) ==
  IF v = <<>> THEN Some("Email cannot be empty")
  ELSE IF ~Email_is_valid(v)
    THEN Some("Please enter a valid email address (e.g. user@example.com)")
  ELSE None

String_is_valid(v) == v # <<>>

String_error_message(v) ==
  IF v = <<>> THEN Some("Field cannot be empty") ELSE None

\* is_valid of an age with both ends of the range left out
Age_is_valid_exclusive(v) ==
  IF v.some THEN U32_gt(v.val, 18) /\ U32_lt(v.val, 120) ELSE TRUE

Age_is_valid(v) == IF v.some THEN U32_ge(v.val, 18) /\ U32_le(v.val, 120) ELSE TRUE

Age_error_message(v) ==
  IF v.some /\ (U32_lt(v.val, 18) \/ U32_gt(v.val, 120))
    THEN Some("Age must be between 18 and 120")
  ELSE None

\* The Validatable implementation of the value type of each field.
is_valid(ident, v) ==
  CASE ident = "Username" -> Username_is_valid(v)
    [] ident = "Email" -> Email_is_valid(v)
    [] ident = "Age" -> Age_is_valid(v)
    [] ident = "Address" -> String_is_valid(v)

error_message(ident, v) ==
  CASE ident = "Username" -> Username_error_message(v)
    [] ident = "Email" -> Email_error_message(v)
    [] ident = "Age" -> Age_error_message(v)
    [] ident = "Address" -> String_error_message(v)

----------------------------------------------------------------------------
(* Field<T>; a form is a function from FieldIdent to fields plus two flags *)

\* validate that recomputes the error and leaves the valid flag as it was
validate_stale_valid(ident, f) ==
  [f EXCEPT !.error = error_message(ident, f.value)]

\* validate that never takes a field back from invalid to valid
validate_sticky_invalid(ident, f) ==
  [f EXCEPT !.valid = f.valid /\ is_valid(ident, f.value),
            !.error = error_message(ident, f.value)]

validate(ident, f) ==
  [f EXCEPT !.valid = is_valid(ident, f.value),
            !.error = error_message(ident, f.value)]

\* set_value that only ever raises the dirty flag
set_value_sticky_dirty(ident, f, v) ==
  validate(ident, [f EXCEPT !.value = v,
                            !.dirty = f.dirty \/ (v # f.initial_value)])

set_value(ident, f, v) ==
  validate(ident, [f EXCEPT !.value = v, !.dirty = (v # f.initial_value)])

\* mark_touched that leaves valid and error as they were
mark_touched_without_validate(ident, f) == [f EXCEPT !.touched = TRUE]

mark_touched(ident, f) == validate(ident, [f EXCEPT !.touched = TRUE])

\* set_editing that also marks the field touched when editing begins
Field_set_editing_touching(f, editing) ==
  [f EXCEPT !.editing = editing, !.touched = IF editing THEN TRUE ELSE @]

Field_set_editing(f, editing) == [f EXCEPT !.editing = editing]

----------------------------------------------------------------------------
(* Form *)

Form_default ==
  [ Username |-> [value |-> <<>>, initial_value |-> <<>>, touched |-> FALSE,
                  dirty |-> FALSE, error |-> Some("Username cannot be empty"),
                  valid |-> FALSE, editing |-> FALSE],
    Email    |-> [value |-> <<>>, initial_value |-> <<>>, touched |-> FALSE,
                  dirty |-> FALSE, error |-> Some("Email cannot be empty"),
                  valid |-> FALSE, editing |-> FALSE],
    Age      |-> [value |-> None, initial_value |-> None, touched |-> FALSE,
                  dirty |-> FALSE, error |-> None,
                  valid |-> TRUE, editing |-> FALSE],
    Address  |-> [value |-> <<>>, initial_value |-> <<>>, touched |-> FALSE,
                  dirty |-> FALSE, error |-> Some("Address cannot be empty"),
                  valid |-> FALSE, editing |-> FALSE],
    submitted |-> FALSE,
    is_editing |-> TRUE ]

\* touch_all that forgets the age field
touch_all_skips_age(fm) ==
  [fm EXCEPT !.Username = mark_touched("Username", @),
             !.Email = mark_touched("Email", @),
             !.Address = mark_touched("Address", @)]

touch_all(fm) ==
  [fm EXCEPT !.Username = mark_touched("Username", @),
             !.Email = mark_touched("Email", @),
             !.Age = mark_touched("Age", @),
             !.Address = mark_touched("Address", @)]

validate_all(fm) ==
  [fm EXCEPT !.Username = validate("Username", @),
             !.Email = validate("Email", @),
             !.Age = validate("Age", @),
             !.Address = validate("Address", @)]

Form_is_valid(fm) ==
  fm.Username.valid /\ fm.Email.valid /\ fm.Age.valid /\ fm.Address.valid

Form_set_editing(fm, editing) ==
  [fm EXCEPT !.is_editing = editing,
             !.Username = Field_set_editing(@, editing),
             !.Email = Field_set_editing(@, editing),
             !.Age = Field_set_editing(@, editing),
             !.Address = Field_set_editing(@, editing)]

Form_reset(fm) == Form_default

\* can_submit that does not look at the lock
can_submit_ignores_lock(fm) == Form_is_valid(fm)

can_submit(fm) == fm.is_editing /\ Form_is_valid(fm)

\* FormHandler::view, status_message with the invalid form ranked above the
\* dirty one
status_message_invalid_before_dirty(fm) ==
  IF fm.submitted THEN "Form Submitted Successfully!"
  ELSE IF ~fm.is_editing THEN "Form data (View only)"
  ELSE IF ~Form_is_valid(fm) THEN "Please correct the errors."
  ELSE IF fm.Username.dirty \/ fm.Email.dirty \/ fm.Age.dirty \/ fm.Address.dirty
    THEN "Form has unsaved changes"
  ELSE "Please fill out the form."

\* FormHandler::view, the status_message of the view model
status_message(fm) ==
  IF fm.submitted THEN "Form Submitted Successfully!"
  ELSE IF ~fm.is_editing THEN "Form data (View only)"
  ELSE IF fm.Username.dirty \/ fm.Email.dirty \/ fm.Age.dirty \/ fm.Address.dirty
    THEN "Form has unsaved changes"
  ELSE IF ~Form_is_valid(fm) THEN "Please correct the errors."
  ELSE "Please fill out the form."

\* FormHandler::view, the can_submit of the view model
view_can_submit(fm) == can_submit(fm)

----------------------------------------------------------------------------
(* Effects and events *)

Render == [kind |-> "Render"]
Http_get(url) == [kind |-> "Http", method |-> "GET", url |-> url]

\* AddressSuggestionsResult
Success(list) == [tag |-> "Success", list |-> list]
Error == [tag |-> "Error"]

EvUpdateValue(ident, value) ==
  [type |-> "UpdateValue", ident |-> ident, value |-> value]
EvTouchField(ident) == [type |-> "TouchField", ident |-> ident]
EvSetFieldEditing(ident, editing) ==
  [type |-> "SetFieldEditing", ident |-> ident, editing |-> editing]
EvSubmit == [type |-> "Submit"]
EvEdit == [type |-> "Edit"]
EvResetForm == [type |-> "ResetForm"]
EvFetchSuggestions(query) == [type |-> "FetchSuggestions", query |-> query]
EvSuggestionsReceived(result) ==
  [type |-> "SuggestionsReceived", result |-> result]
EvSelectSuggestion(suggestion) ==
  [type |-> "SelectSuggestion", suggestion |-> suggestion]
EvClearSuggestions == [type |-> "ClearSuggestions"]

----------------------------------------------------------------------------
(* FormHandler: each handler yields the new form and the command it       *)
(* returns, as the events the command sends and the effects it requests.  *)

FormCmd(fm, events, effs) == [form |-> fm, events |-> events, effects |-> effs]

\* handle_update_value without the early return on a locked form
handle_update_value_unguarded(fm, ident, value) ==
  CASE ident = "Username" ->
         FormCmd(validate_all([fm EXCEPT !.Username =
                   set_value("Username", @, value)]), <<>>, <<Render>>)
    [] ident = "Email" ->
         FormCmd(validate_all([fm EXCEPT !.Email =
                   set_value("Email", @, value)]), <<>>, <<Render>>)
    [] ident = "Age" ->
         FormCmd(validate_all([fm EXCEPT !.Age =
                   set_value("Age", @, parse_u32(value))]), <<>>, <<Render>>)
    [] ident = "Address" ->
         FormCmd([fm EXCEPT !.Address = set_value("Address", @, value)],
                 <<EvFetchSuggestions(value)>>, <<Render>>)

\* handle_update_value that validates the changed field only
handle_update_value_without_validate_all(fm, ident, value) ==
  IF ~fm.is_editing THEN FormCmd(fm, <<>>, <<>>)
  ELSE CASE ident = "Username" ->
              FormCmd([fm EXCEPT !.Username = set_value("Username", @, value)],
                      <<>>, <<Render>>)
         [] ident = "Email" ->
              FormCmd([fm EXCEPT !.Email = set_value("Email", @, value)],
                      <<>>, <<Render>>)
         [] ident = "Age" ->
              FormCmd([fm EXCEPT !.Age = set_value("Age", @, parse_u32(value))],
                      <<>>, <<Render>>)
         [] ident = "Address" ->
              FormCmd([fm EXCEPT !.Address = set_value("Address", @, value)],
                      <<EvFetchSuggestions(value)>>, <<Render>>)

handle_update_value(fm, ident, value) ==
  IF ~fm.is_editing THEN FormCmd(fm, <<>>, <<>>)
  ELSE CASE ident = "Username" ->
              FormCmd(validate_all([fm EXCEPT !.Username =
                        set_value("Username", @, value)]), <<>>, <<Render>>)
         [] ident = "Email" ->
              FormCmd(validate_all([fm EXCEPT !.Email =
                        set_value("Email", @, value)]), <<>>, <<Render>>)
         [] ident = "Age" ->
              FormCmd(validate_all([fm EXCEPT !.Age =
                        set_value("Age", @, parse_u32(value))]), <<>>, <<Render>>)
         [] ident = "Address" ->
              FormCmd([fm EXCEPT !.Address = set_value("Address", @, value)],
                      <<EvFetchSuggestions(value)>>, <<Render>>)

handle_touch_field(fm, ident) ==
  IF ~fm.is_editing THEN FormCmd(fm, <<>>, <<>>)
  ELSE FormCmd([fm EXCEPT ![ident] = mark_touched(ident, @)], <<>>, <<Render>>)

\* handle_set_field_editing without the early return on a locked form
handle_set_field_editing_unguarded(fm, ident, editing) ==
  FormCmd([fm EXCEPT ![ident] = Field_set_editing(@, editing)], <<>>, <<Render>>)

\* handle_set_field_editing whose early return is taken for turning editing
\* off on a locked form, not for turning it on
handle_set_field_editing_refuses_off(fm, ident, editing) ==
  IF ~fm.is_editing /\ ~editing THEN FormCmd(fm, <<>>, <<>>)
  ELSE FormCmd([fm EXCEPT ![ident] = Field_set_editing(@, editing)],
               <<>>, <<Render>>)

handle_set_field_editing(fm, ident, editing) ==
  IF ~fm.is_editing /\ editing THEN FormCmd(fm, <<>>, <<>>)
  ELSE FormCmd([fm EXCEPT ![ident] = Field_set_editing(@, editing)],
               <<>>, <<Render>>)

\* handle_submit that sets submitted and leaves the form unlocked
handle_submit_keeps_editing(fm) ==
  LET checked == validate_all(touch_all(fm))
  IN  IF Form_is_valid(checked)
        THEN FormCmd([checked EXCEPT !.submitted = TRUE],
                     <<EvClearSuggestions>>, <<Render>>)
        ELSE FormCmd([checked EXCEPT !.submitted = FALSE], <<>>, <<Render>>)

\* handle_submit that requests no render when validation fails
handle_submit_silent_when_invalid(fm) ==
  LET checked == validate_all(touch_all(fm))
  IN  IF Form_is_valid(checked)
        THEN FormCmd(Form_set_editing([checked EXCEPT !.submitted = TRUE], FALSE),
                     <<EvClearSuggestions>>, <<Render>>)
        ELSE FormCmd([checked EXCEPT !.submitted = FALSE], <<>>, <<>>)

\* handle_submit that flips submitted instead of setting it
handle_submit_toggles_submitted(fm) ==
  LET checked == validate_all(touch_all(fm))
  IN  IF Form_is_valid(checked)
        THEN FormCmd(Form_set_editing([checked EXCEPT !.submitted = ~fm.submitted],
                                      FALSE),
                     <<EvClearSuggestions>>, <<Render>>)
        ELSE FormCmd([checked EXCEPT !.submitted = FALSE], <<>>, <<Render>>)

\* handle_submit that submits and locks whatever validation found
handle_submit_unchecked(fm) ==
  LET checked == validate_all(touch_all(fm))
  IN  FormCmd(Form_set_editing([checked EXCEPT !.submitted = TRUE], FALSE),
              <<EvClearSuggestions>>, <<Render>>)

handle_submit(fm) ==
  LET checked == validate_all(touch_all(fm))
  IN  IF Form_is_valid(checked)
        THEN FormCmd(Form_set_editing([checked EXCEPT !.submitted = TRUE], FALSE),
                     <<EvClearSuggestions>>, <<Render>>)
        ELSE FormCmd([checked EXCEPT !.submitted = FALSE], <<>>, <<Render>>)

\* handle_edit that unlocks the form and leaves submitted as it was
handle_edit_keeps_submitted(fm) ==
  FormCmd(Form_set_editing(fm, TRUE), <<>>, <<Render>>)

handle_edit(fm) ==
  FormCmd(Form_set_editing([fm EXCEPT !.submitted = FALSE], TRUE),
          <<>>, <<Render>>)

\* handle_reset that sends no ClearSuggestions
handle_reset_without_clear(fm) == FormCmd(Form_reset(fm), <<>>, <<Render>>)

handle_reset(fm) == FormCmd(Form_reset(fm), <<EvClearSuggestions>>, <<Render>>)

----------------------------------------------------------------------------
(* AddressHandler *)

\* AddressHandler.api_url, as the tests construct the handler
api_url ==
  <<"h","t","t","p",":","/","/","l","o","c","a","l","h","o","s","t",":",
    "8","0","0","0","/","a","p","i","/","s","u","g","g","e","s","t","i","o","n","s">>

AddrCmd(sugg, events, effs) ==
  [suggestions |-> sugg, events |-> events, effects |-> effs]

\* A url whose query has its spaces percent-encoded
RECURSIVE percent_encoded(_)
percent_encoded(s) ==
  IF s = <<>> THEN <<>>
  ELSE (IF Head(s) = " " THEN <<"%","2","0">> ELSE <<Head(s)>>)
         \o percent_encoded(Tail(s))

fetch_url_encoded(query) ==
  api_url \o <<"?","q","u","e","r","y","=">> \o percent_encoded(query)

\* format!("{}?query={}", self.api_url, query)
fetch_url(query) == api_url \o <<"?","q","u","e","r","y","=">> \o query

\* handle_fetch_suggestions that takes the first suggestion off display
handle_fetch_suggestions_drops_first(sugg, query) ==
  AddrCmd(IF sugg = <<>> THEN <<>> ELSE Tail(sugg), <<>>,
          <<Http_get(fetch_url(query))>>)

\* handle_fetch_suggestions that empties the list while the request is out
handle_fetch_suggestions_clears_list(sugg, query) ==
  AddrCmd(<<>>, <<>>, <<Http_get(fetch_url(query))>>)

\* handle_fetch_suggestions that requests the same GET twice
handle_fetch_suggestions_twice(sugg, query) ==
  AddrCmd(sugg, <<>>, <<Http_get(fetch_url(query)), Http_get(fetch_url(query))>>)

handle_fetch_suggestions(sugg, query) ==
  AddrCmd(sugg, <<>>, <<Http_get(fetch_url(query))>>)

\* The continuation given to then_send: the outcome of the request becomes
\* the result carried by SuggestionsReceived.
\* the continuation with a missing body read as an empty list
then_send_missing_body_is_empty(result) ==
  IF result.ok
    THEN IF result.body.some THEN Success(result.body.val) ELSE Success(<<>>)
    ELSE Error

then_send(result) ==
  IF result.ok
    THEN IF result.body.some THEN Success(result.body.val) ELSE Error
    ELSE Error

\* handle_suggestions_received that leaves the list on display after an error
handle_suggestions_received_keeps_on_error(sugg, result) ==
  IF result.tag = "Success"
    THEN AddrCmd(result.list, <<>>, <<Render>>)
    ELSE AddrCmd(sugg, <<>>, <<Render>>)

\* handle_suggestions_received that adds the new suggestions to the old ones
handle_suggestions_received_appends(sugg, result) ==
  IF result.tag = "Success"
    THEN AddrCmd(sugg \o result.list, <<>>, <<Render>>)
    ELSE AddrCmd(<<>>, <<>>, <<Render>>)

handle_suggestions_received(sugg, result) ==
  IF result.tag = "Success"
    THEN AddrCmd(result.list, <<>>, <<Render>>)
    ELSE AddrCmd(<<>>, <<>>, <<Render>>)

\* handle_select_suggestion that leaves the list on display
handle_select_suggestion_keeps_list(sugg, suggestion) ==
  AddrCmd(sugg, <<EvUpdateValue("Address", suggestion.combined)>>, <<Render>>)

handle_select_suggestion(sugg, suggestion) ==
  AddrCmd(<<>>, <<EvUpdateValue("Address", suggestion.combined)>>, <<Render>>)

handle_clear_suggestions(sugg) == AddrCmd(<<>>, <<>>, <<Render>>)

----------------------------------------------------------------------------
(* Inputs of the model *)

UsernameTexts == { <<>>, <<"U","s">>, <<"U","s","e","r">> }
EmailTexts == { <<>>, <<"u","@","x">>, <<"u","@","x",".","i","o">> }
AgeTexts == { <<>>, <<"1","7">>, <<"3","0">>, <<"a","b","c">> }
AddressTexts == { <<>> }
FetchQueries == { <<"1"," ","A">> }

\* AddressSuggestion::new of the address service: `combined` is derived
\* from the four parts when the suggestion is built.
AddressSuggestion_new(street, city, postcode, country) ==
  [street |-> street, city |-> city, postcode |-> postcode, country |-> country,
   combined |-> street \o <<",", " ">> \o city \o <<",", " ">>
                  \o postcode \o <<" ">> \o country]

Suggestion1 ==
  AddressSuggestion_new(<<"1"," ","A">>, <<"X">>, <<"E","1">>, <<"U","K">>)
Suggestion2 ==
  AddressSuggestion_new(<<"2"," ","B">>, <<"X">>, <<"E","2">>, <<"U","K">>)

Catalogue == { Suggestion1, Suggestion2 }

\* The fields the shell touches and the fields whose editing flag it sets
TouchIdents == {"Address"}
EditingIdents == {"Address"}

\* The texts the shell sends for a field
RawTexts(ident) ==
  CASE ident = "Username" -> UsernameTexts
    [] ident = "Email" -> EmailTexts
    [] ident = "Age" -> AgeTexts
    [] ident = "Address" -> AddressTexts \cup {s.combined : s \in Catalogue}

\* The lists a response can carry: none, one or several suggestions
ResponseLists == { <<>>, <<Suggestion1>>, <<Suggestion2, Suggestion1>> }

\* Result<Response<Vec<AddressSuggestion>>, HttpError> as the continuation
\* reads it: a response with a decoded body, a response without one, or a
\* transport or decoding failure.
HttpResults ==
  { [ok |-> TRUE, body |-> Some(l)] : l \in ResponseLists }
    \cup { [ok |-> TRUE, body |-> None], [ok |-> FALSE] }

----------------------------------------------------------------------------
(* Root reducer: events are dispatched one at a time. An event sent by the *)
(* shell, or the resolution of a request, is taken only when no event sent *)
(* by a command is waiting; those are dispatched first, oldest first.      *)

Arrives(ev) == IF pending = <<>> THEN TRUE ELSE Head(pending) = ev

\* An event that may issue a request is sent only while there is room
HasRoom == pending # <<>> \/ Len(inflight) < MaxInFlight

Dispatched(events, effs) ==
  /\ pending' = (IF pending = <<>> THEN <<>> ELSE Tail(pending)) \o events
  /\ effects' = (IF pending = <<>> THEN <<>> ELSE effects) \o effs

Init ==
  /\ form = Form_default
  /\ suggestions = <<>>
  /\ inflight = <<>>
  /\ pending = <<>>
  /\ effects = <<>>

UpdateValueOf(ident, value) ==
  /\ Arrives(EvUpdateValue(ident, value))
  /\ ident = "Address" => HasRoom
  /\ LET cmd == handle_update_value(form, ident, value)
     IN  /\ form' = cmd.form
         /\ Dispatched(cmd.events, cmd.effects)
  /\ UNCHANGED <<suggestions, inflight>>

UpdateValue ==
  \E ident \in FieldIdent : \E value \in RawTexts(ident) :
    UpdateValueOf(ident, value)

TouchFieldOf(ident) ==
  /\ Arrives(EvTouchField(ident))
  /\ LET cmd == handle_touch_field(form, ident)
     IN  /\ form' = cmd.form
         /\ Dispatched(cmd.events, cmd.effects)
  /\ UNCHANGED <<suggestions, inflight>>

TouchField == \E ident \in TouchIdents : TouchFieldOf(ident)

SetFieldEditingOf(ident, editing) ==
  /\ Arrives(EvSetFieldEditing(ident, editing))
  /\ LET cmd == handle_set_field_editing(form, ident, editing)
     IN  /\ form' = cmd.form
         /\ Dispatched(cmd.events, cmd.effects)
  /\ UNCHANGED <<suggestions, inflight>>

SetFieldEditing ==
  \E ident \in EditingIdents : \E editing \in BOOLEAN :
    SetFieldEditingOf(ident, editing)

Submit ==
  /\ Arrives(EvSubmit)
  /\ LET cmd == handle_submit(form)
     IN  /\ form' = cmd.form
         /\ Dispatched(cmd.events, cmd.effects)
  /\ UNCHANGED <<suggestions, inflight>>

Edit ==
  /\ Arrives(EvEdit)
  /\ LET cmd == handle_edit(form)
     IN  /\ form' = cmd.form
         /\ Dispatched(cmd.events, cmd.effects)
  /\ UNCHANGED <<suggestions, inflight>>

ResetForm ==
  /\ Arrives(EvResetForm)
  /\ LET cmd == handle_reset(form)
     IN  /\ form' = cmd.form
         /\ Dispatched(cmd.events, cmd.effects)
  /\ UNCHANGED <<suggestions, inflight>>

\* The HTTP requests among effects
HttpEffects(effs) == SelectSeq(effs, LAMBDA e : e.kind = "Http")

\* A request handed to the shell stays outstanding until the shell resolves
\* it. `superseded` records that a request issued later has been answered.
Issued(effs) ==
  [i \in 1..Len(effs) |-> [superseded |-> FALSE]]

FetchSuggestionsOf(query) ==
  /\ Arrives(EvFetchSuggestions(query))
  /\ pending = <<>> => query \in FetchQueries
  /\ HasRoom
  /\ LET cmd == handle_fetch_suggestions(suggestions, query)
     IN  /\ suggestions' = cmd.suggestions
         /\ inflight' = inflight \o Issued(cmd.effects)
         /\ Dispatched(cmd.events, cmd.effects)
  /\ UNCHANGED form

FetchSuggestions ==
  \E query \in FetchQueries \cup RawTexts("Address") : FetchSuggestionsOf(query)

\* The shell resolves the i-th outstanding request, in any order; the
\* continuation turns the outcome into SuggestionsReceived, dispatched at
\* once.
Resolved(i) ==
  [j \in 1..(Len(inflight) - 1) |->
     IF j < i THEN [inflight[j] EXCEPT !.superseded = TRUE]
     ELSE inflight[j + 1]]

SuggestionsReceivedOf(i, outcome) ==
  /\ pending = <<>>
  /\ i \in 1..Len(inflight)
  /\ LET cmd == handle_suggestions_received(suggestions, then_send(outcome))
     IN  /\ suggestions' = cmd.suggestions
         /\ inflight' = Resolved(i)
         /\ Dispatched(cmd.events, cmd.effects)
  /\ UNCHANGED form

SuggestionsReceived ==
  \E i \in 1..Len(inflight) : \E outcome \in HttpResults :
    SuggestionsReceivedOf(i, outcome)

SelectSuggestionOf(suggestion) ==
  /\ Arrives(EvSelectSuggestion(suggestion))
  /\ HasRoom
  /\ LET cmd == handle_select_suggestion(suggestions, suggestion)
     IN  /\ suggestions' = cmd.suggestions
         /\ Dispatched(cmd.events, cmd.effects)
  /\ UNCHANGED <<form, inflight>>

SelectSuggestion == \E suggestion \in Catalogue : SelectSuggestionOf(suggestion)

ClearSuggestions ==
  /\ Arrives(EvClearSuggestions)
  /\ LET cmd == handle_clear_suggestions(suggestions)
     IN  /\ suggestions' = cmd.suggestions
         /\ Dispatched(cmd.events, cmd.effects)
  /\ UNCHANGED <<form, inflight>>

Next ==
  \/ UpdateValue
  \/ TouchField
  \/ SetFieldEditing
  \/ Submit
  \/ Edit
  \/ ResetForm
  \/ FetchSuggestions
  \/ SuggestionsReceived
  \/ SelectSuggestion
  \/ ClearSuggestions

Spec == Init /\ [][Next]_vars

\* The dispatch of an event that a command sent: it re-enters the reducer
\* before control returns to the shell, so it is never left waiting.
Chained == pending # <<>> /\ Next

LiveSpec == Init /\ [][Next]_vars /\ WF_vars(Chained)

----------------------------------------------------------------------------
(* The monolithic App (shared/src/app.rs) over the Field and Form of       *)
(* core/src: one update function, no chained events. It is a second        *)
(* program over the same state: form is model.form and suggestions is      *)
(* model.address_suggestions.                                              *)

Ok == [ok |-> TRUE]
Err(msg) == [ok |-> FALSE, msg |-> msg]

Whitespace == {" "}

\* v.trim().is_empty()
trim_is_empty(v) == \A i \in 1..Len(v) : v[i] \in Whitespace

contains(v, c) == \E i \in 1..Len(v) : v[i] = c

username_validator(v) ==
  IF trim_is_empty(v) THEN Err("Username cannot be empty")
  ELSE IF Len(v) < 3 THEN Err("Username must be at least 3 characters")
  ELSE Ok

email_validator(v) ==
  IF trim_is_empty(v) THEN Err("Email cannot be empty")
  ELSE IF ~contains(v, "@") \/ ~contains(v, ".") THEN Err("Invalid email format")
  ELSE Ok

age_validator(v_opt) ==
  IF v_opt.some
    THEN IF U32_ge(v_opt.val, 18) /\ U32_le(v_opt.val, 120) THEN Ok
         ELSE Err("Age must be between 18 and 120")
    ELSE Ok

address_validator(v) ==
  IF trim_is_empty(v) THEN Err("Address cannot be empty") ELSE Ok

\* The validator each field of Form::default is built with
validator(ident, v) ==
  CASE ident = "Username" -> username_validator(v)
    [] ident = "Email" -> email_validator(v)
    [] ident = "Age" -> age_validator(v)
    [] ident = "Address" -> address_validator(v)

Core_Field_validate(ident, f) ==
  LET r == validator(ident, f.value)
  IN  IF r.ok THEN [f EXCEPT !.valid = TRUE, !.error = None]
      ELSE [f EXCEPT !.valid = FALSE, !.error = Some(r.msg)]

Core_Field_new(ident, initial) ==
  Core_Field_validate(ident,
    [value |-> initial, initial_value |-> initial, touched |-> FALSE,
     dirty |-> FALSE, error |-> None, valid |-> TRUE, editing |-> FALSE])

Core_Field_update_value(ident, f, new_value) ==
  Core_Field_validate(ident,
    [f EXCEPT !.value = new_value, !.dirty = (new_value # f.initial_value),
              !.touched = TRUE])

Core_Field_set_editing(f, editing) ==
  [f EXCEPT !.editing = editing, !.touched = IF editing THEN TRUE ELSE @]

Core_Field_touch(f) == [f EXCEPT !.touched = TRUE]

Core_Form_default ==
  [ Username |-> Core_Field_new("Username", <<>>),
    Email    |-> Core_Field_new("Email", <<>>),
    Age      |-> Core_Field_new("Age", None),
    Address  |-> Core_Field_new("Address", <<>>),
    submitted |-> FALSE,
    is_editing |-> TRUE ]

Core_Form_validate_all(fm) ==
  [fm EXCEPT !.Username = Core_Field_validate("Username", @),
             !.Email = Core_Field_validate("Email", @),
             !.Age = Core_Field_validate("Age", @),
             !.Address = Core_Field_validate("Address", @)]

Core_Form_is_valid(fm) ==
  fm.Username.valid /\ fm.Email.valid /\ fm.Age.valid /\ fm.Address.valid

Core_Form_touch_all(fm) ==
  [fm EXCEPT !.Username = Core_Field_touch(@),
             !.Email = Core_Field_touch(@),
             !.Age = Core_Field_touch(@),
             !.Address = Core_Field_touch(@)]

Core_Form_reset(fm) ==
  [fm EXCEPT !.Username = Core_Form_default.Username,
             !.Email = Core_Form_default.Email,
             !.Age = Core_Form_default.Age,
             !.Address = Core_Form_default.Address,
             !.submitted = FALSE,
             !.is_editing = TRUE]

Core_Form_set_editing(fm, editing) ==
  [fm EXCEPT !.is_editing = editing,
             !.Username = Core_Field_set_editing(@, editing),
             !.Email = Core_Field_set_editing(@, editing),
             !.Age = Core_Field_set_editing(@, editing),
             !.Address = Core_Field_set_editing(@, editing)]

\* const ADDRESS_API_URL
ADDRESS_API_URL ==
  <<"h","t","t","p",":","/","/","l","o","c","a","l","h","o","s","t",":",
    "8","0","0","0","/","a","p","i","/","s","u","g","g","e","s","t","i","o","n","s">>

\* Http::get(format!("{}?query={}", ADDRESS_API_URL, query))
App_http_get(query) ==
  Http_get(ADDRESS_API_URL \o <<"?","q","u","e","r","y","=">> \o query)

\* App::update, one definition for each arm of the match: the model after
\* the arm and the effects of the command it returns.
AppCmd(fm, sugg, effs) ==
  [form |-> fm, address_suggestions |-> sugg, effects |-> effs]

update_UpdateValue(fm, sugg, ident, value) ==
  IF ~fm.is_editing THEN AppCmd(fm, sugg, <<>>)
  ELSE CASE ident = "Username" ->
              AppCmd([fm EXCEPT !.Username =
                        Core_Field_update_value("Username", @, value)],
                     sugg, <<Render>>)
         [] ident = "Email" ->
              AppCmd([fm EXCEPT !.Email =
                        Core_Field_update_value("Email", @, value)],
                     sugg, <<Render>>)
         [] ident = "Age" ->
              AppCmd([fm EXCEPT !.Age =
                        Core_Field_update_value("Age", @, parse_u32(value))],
                     sugg, <<Render>>)
         [] ident = "Address" ->
              AppCmd([fm EXCEPT !.Address =
                        Core_Field_update_value("Address", @, value)],
                     sugg, <<App_http_get(value)>>)

update_TouchField(fm, sugg, ident) ==
  IF ~fm.is_editing THEN AppCmd(fm, sugg, <<>>)
  ELSE AppCmd([fm EXCEPT ![ident] = Core_Field_touch(@)],
              IF ident = "Address" THEN <<>> ELSE sugg,
              <<Render>>)

update_SetFieldEditing(fm, sugg, ident, editing) ==
  IF ~fm.is_editing /\ editing THEN AppCmd(fm, sugg, <<>>)
  ELSE AppCmd([fm EXCEPT ![ident] = Core_Field_set_editing(@, editing)],
              IF ident = "Address" /\ ~editing THEN <<>> ELSE sugg,
              <<Render>>)

update_FetchAddressSuggestions(fm, sugg, query) ==
  IF fm.is_editing THEN AppCmd(fm, sugg, <<App_http_get(query)>>)
  ELSE AppCmd(fm, sugg, <<>>)

\* the AddressSuggestionsReceived arm without its filter
update_AddressSuggestionsReceived_unfiltered(fm, sugg, result) ==
  IF result.tag = "Success"
    THEN AppCmd(fm, result.list, <<Render>>)
    ELSE AppCmd(fm, <<>>, <<Render>>)

update_AddressSuggestionsReceived(fm, sugg, result) ==
  IF result.tag = "Success"
    THEN AppCmd(fm,
                SelectSeq(result.list, LAMBDA x : x.combined # fm.Address.value),
                <<Render>>)
    ELSE AppCmd(fm, <<>>, <<Render>>)

update_Submit(fm, sugg) ==
  LET checked == Core_Form_validate_all(Core_Form_touch_all(fm))
  IN  IF Core_Form_is_valid(checked)
        THEN AppCmd(Core_Form_set_editing([checked EXCEPT !.submitted = TRUE], FALSE),
                    <<>>, <<Render>>)
        ELSE AppCmd([checked EXCEPT !.submitted = FALSE], sugg, <<Render>>)

update_Edit(fm, sugg) ==
  AppCmd(Core_Form_set_editing([fm EXCEPT !.submitted = FALSE], TRUE),
         <<>>, <<Render>>)

update_ResetForm(fm, sugg) == AppCmd(Core_Form_reset(fm), <<>>, <<Render>>)

update_SelectAddressSuggestion(fm, sugg, suggestion) ==
  IF ~fm.is_editing THEN AppCmd(fm, sugg, <<>>)
  ELSE AppCmd([fm EXCEPT !.Address =
                 Core_Field_touch(
                   Core_Field_update_value("Address", @, suggestion.combined))],
              <<>>, <<Render>>)

\* The core applies the command: the model is replaced, the effects go to
\* the shell, and every HTTP request among them becomes outstanding.
Applied(cmd) ==
  /\ form' = cmd.form
  /\ suggestions' = cmd.address_suggestions
  /\ effects' = cmd.effects
  /\ inflight' = inflight \o Issued(HttpEffects(cmd.effects))
  /\ UNCHANGED pending

AppInit ==
  /\ form = Core_Form_default
  /\ suggestions = <<>>
  /\ inflight = <<>>
  /\ pending = <<>>
  /\ effects = <<>>

App_UpdateValueOf(ident, value) ==
  /\ ident = "Address" => Len(inflight) < MaxInFlight
  /\ Applied(update_UpdateValue(form, suggestions, ident, value))

App_UpdateValue ==
  \E ident \in FieldIdent : \E value \in RawTexts(ident) :
    App_UpdateValueOf(ident, value)

App_TouchField ==
  \E ident \in TouchIdents : Applied(update_TouchField(form, suggestions, ident))

App_SetFieldEditingOf(ident, editing) ==
  Applied(update_SetFieldEditing(form, suggestions, ident, editing))

App_SetFieldEditing ==
  \E ident \in EditingIdents : \E editing \in BOOLEAN :
    App_SetFieldEditingOf(ident, editing)

App_FetchAddressSuggestions ==
  /\ Len(inflight) < MaxInFlight
  /\ \E query \in FetchQueries :
       Applied(update_FetchAddressSuggestions(form, suggestions, query))

\* The shell resolves the i-th outstanding request; the continuation turns
\* the outcome into AddressSuggestionsReceived.
App_AddressSuggestionsReceivedOf(i, outcome) ==
  /\ i \in 1..Len(inflight)
  /\ LET cmd == update_AddressSuggestionsReceived(form, suggestions,
                                                  then_send(outcome))
     IN  /\ form' = cmd.form
         /\ suggestions' = cmd.address_suggestions
         /\ effects' = cmd.effects
         /\ inflight' = Resolved(i)
         /\ UNCHANGED pending

App_AddressSuggestionsReceived ==
  \E i \in 1..Len(inflight) : \E outcome \in HttpResults :
    App_AddressSuggestionsReceivedOf(i, outcome)

App_Submit == Applied(update_Submit(form, suggestions))

App_Edit == Applied(update_Edit(form, suggestions))

App_ResetForm == Applied(update_ResetForm(form, suggestions))

App_SelectAddressSuggestion ==
  \E suggestion \in Catalogue :
    Applied(update_SelectAddressSuggestion(form, suggestions, suggestion))

AppNext ==
  \/ App_UpdateValue
  \/ App_TouchField
  \/ App_SetFieldEditing
  \/ App_FetchAddressSuggestions
  \/ App_AddressSuggestionsReceived
  \/ App_Submit
  \/ App_Edit
  \/ App_ResetForm
  \/ App_SelectAddressSuggestion

AppSpec == AppInit /\ [][AppNext]_vars

----------------------------------------------------------------------------
(* Properties *)

HasRender(effs) == \E i \in 1..Len(effs) : effs[i] = Render

\* The step sends no event and requests no effect
Silent == Dispatched(<<>>, <<>>)

\* The number of render requests among effects
RenderCount(effs) == Len(SelectSeq(effs, LAMBDA e : e = Render))

\* C1: a response to a request that was issued before a request already
\* answered (a stale response) does not change the suggestion list.
C1_StaleResponseIgnored ==
  [][\A i \in 1..Len(inflight) : \A outcome \in HttpResults :
       (inflight[i].superseded /\ SuggestionsReceivedOf(i, outcome))
         => suggestions' = suggestions]_vars

\* C2: every field is dirty exactly when its value differs from its
\* initial value.
C2_DirtyIffChanged ==
  \A ident \in FieldIdent :
    form[ident].dirty = (form[ident].value # form[ident].initial_value)

\* A field was set back to its initial value while another one is changed
C2_Witness ==
  /\ form.Username.dirty
  /\ form.Address.value = form.Address.initial_value
  /\ ~form.Address.dirty
  /\ pending = <<>>
  /\ effects = <<Render, Http_get(fetch_url(<<>>))>>

\* C3: every field's valid flag is is_valid() of its current value, and
\* Form.is_valid() is the conjunction of the four flags.
C3_ValidIsIsValid ==
  /\ \A ident \in FieldIdent :
       form[ident].valid = is_valid(ident, form[ident].value)
  /\ Form_is_valid(form) = (\A ident \in FieldIdent : form[ident].valid)

\* Valid and invalid values side by side, all validated by a Submit
C3_Witness ==
  /\ form.Username.valid
  /\ ~form.Email.valid /\ form.Email.value # <<>>
  /\ ~form.Age.valid
  /\ form.Address.valid
  /\ \A ident \in FieldIdent : form[ident].touched

\* C4: every field's error is error_message() of its current value.
C4_ErrorIsErrorMessage ==
  \A ident \in FieldIdent :
    form[ident].error = error_message(ident, form[ident].value)

\* C5: Submit on a form whose four fields are all valid sets submitted,
\* clears is_editing and every field's editing flag, and sends
\* ClearSuggestions, whose dispatch leaves the suggestion list empty
\* whatever it held and the form as it is.
C5_ValidSubmitLocksAndClears ==
  [][/\ (Form_is_valid(form) /\ Submit) =>
          /\ form'.submitted
          /\ ~form'.is_editing
          /\ \A ident \in FieldIdent : ~form'[ident].editing
          /\ pending' = <<EvClearSuggestions>>
     /\ (pending = <<EvClearSuggestions>> /\ ClearSuggestions) =>
          /\ suggestions' = <<>>
          /\ pending' = <<>>
          /\ form' = form]_vars

\* A valid form has just been submitted while suggestions were on display
C5_Witness ==
  /\ form.submitted
  /\ ~form.is_editing
  /\ pending = <<EvClearSuggestions>>
  /\ suggestions # <<>>

\* C6: Submit on a form with an invalid field leaves submitted false and
\* is_editing true, marks all four fields touched, keeps every value and
\* dirty flag and requests a render.
C6_InvalidSubmitStaysOpen ==
  [][(~Form_is_valid(form) /\ Submit) =>
        /\ ~form'.submitted
        /\ form'.is_editing
        /\ \A ident \in FieldIdent :
             /\ form'[ident].touched
             /\ form'[ident].value = form[ident].value
             /\ form'[ident].dirty = form[ident].dirty
        /\ HasRender(effects')]_vars

\* An invalid form after a Submit: every field touched, still open
C6_Witness ==
  /\ ~Form_is_valid(form)
  /\ \A ident \in FieldIdent : form[ident].touched
  /\ form.Username.dirty
  /\ ~form.submitted
  /\ form.is_editing
  /\ effects = <<Render>>
  /\ pending = <<>>

\* C7: the form a Submit leaves is left as it is by another Submit; every
\* Submit requests a render; a Submit changes submitted or is_editing only
\* by taking an open, not yet submitted form to submitted and locked.
C7_SubmitIdempotent ==
  [][Submit =>
       /\ handle_submit(form').form = form'
       /\ HasRender(effects')
       /\ (form'.submitted # form.submitted \/ form'.is_editing # form.is_editing) =>
            /\ ~form.submitted /\ form'.submitted
            /\ form.is_editing /\ ~form'.is_editing
            /\ \A ident \in FieldIdent : is_valid(ident, form[ident].value)]_vars

\* A Submit has been dispatched on a valid form with nothing else going
\* on; one more Submit would leave the form as it is
C7_Witness ==
  /\ form.submitted
  /\ ~form.is_editing
  /\ pending = <<EvClearSuggestions>>
  /\ effects = <<Render>>
  /\ inflight = <<>>
  /\ suggestions = <<>>
  /\ handle_submit(form).form = form

\* C8: UpdateValue on a locked form requests no effect, sends no event and
\* changes neither the form nor the suggestion list nor the requests
\* outstanding.
C8_LockedUpdateIsNoOp ==
  [][\A ident \in FieldIdent : \A value \in RawTexts(ident) :
       (~form.is_editing /\ UpdateValueOf(ident, value)) =>
          /\ Silent
          /\ UNCHANGED <<form, suggestions, inflight>>]_vars

\* A locked form on which an event had no effect
C8_Witness ==
  /\ form.submitted
  /\ ~form.is_editing
  /\ pending = <<>>
  /\ effects = <<>>

\* C9: while editing, UpdateValue{Address, raw} requests no HTTP effect
\* itself and sends FetchSuggestions{raw}, whose dispatch requests exactly
\* one, a GET of api_url?query=raw with raw as typed.
C9_AddressUpdateFetchesOnce ==
  [][\A raw \in RawTexts("Address") :
       /\ (form.is_editing /\ UpdateValueOf("Address", raw)) =>
            /\ pending' = <<EvFetchSuggestions(raw)>>
            /\ HttpEffects(effects') =
                 (IF pending = <<>> THEN <<>> ELSE HttpEffects(effects))
       /\ (pending = <<EvFetchSuggestions(raw)>> /\ FetchSuggestionsOf(raw)) =>
            /\ pending' = <<>>
            /\ HttpEffects(effects') = HttpEffects(effects) \o
                 << [kind |-> "Http", method |-> "GET",
                     url |-> api_url \o <<"?","q","u","e","r","y","=">> \o raw] >>]_vars

\* An address holding spaces and commas was typed and fetched as typed
C9_Witness ==
  /\ form.is_editing
  /\ pending = <<>>
  /\ \E s \in Catalogue :
       /\ form.Address.value = s.combined
       /\ effects = <<Render, [kind |-> "Http", method |-> "GET",
                      url |-> api_url \o <<"?","q","u","e","r","y","=">> \o s.combined]>>

\* C10 as claimed: the UpdateValue sent by SelectSuggestion leaves the
\* address equal to suggestion.combined and the list empty, whether the
\* form is editing or locked.
C10_SelectSetsAddressAlways ==
  [][\A s \in Catalogue :
       (pending = <<EvUpdateValue("Address", s.combined)>>
          /\ UpdateValueOf("Address", s.combined)) =>
            /\ form'.Address.value = s.combined
            /\ suggestions' = <<>>]_vars

\* C10 amended: SelectSuggestion empties the list and sends
\* UpdateValue{Address, combined}; its dispatch keeps the list empty and
\* sets the address to combined when the form is editing, and leaves the
\* address as it was when the form is locked; the FetchSuggestions that
\* follows changes neither.
C10_SelectSetsAddressWhenEditing ==
  [][\A s \in Catalogue :
       /\ SelectSuggestionOf(s) =>
            /\ suggestions' = <<>>
            /\ pending' = <<EvUpdateValue("Address", s.combined)>>
       /\ (pending = <<EvUpdateValue("Address", s.combined)>>
             /\ UpdateValueOf("Address", s.combined)) =>
            /\ suggestions' = <<>>
            /\ form'.Address.value =
                 (IF form.is_editing THEN s.combined ELSE form.Address.value)
            /\ pending' =
                 (IF form.is_editing THEN <<EvFetchSuggestions(s.combined)>> ELSE <<>>)
       /\ (pending = <<EvFetchSuggestions(s.combined)>>
             /\ FetchSuggestionsOf(s.combined)) =>
            /\ suggestions' = suggestions
            /\ form' = form
            /\ pending' = <<>>]_vars

\* The end of a selection on an editing form
C10_Witness ==
  /\ form.is_editing
  /\ pending = <<>>
  /\ suggestions = <<>>
  /\ \E s \in Catalogue :
       /\ form.Address.value = s.combined
       /\ effects = <<Render, Render, Http_get(fetch_url(s.combined))>>

\* C11: SelectSuggestion and the events it chains (UpdateValue{Address},
\* then FetchSuggestions) request exactly one render between them: after
\* each step of the chain the effects requested since SelectSuggestion
\* arrived hold one render.
C11_SelectRendersOnce ==
  [][\A s \in Catalogue :
       /\ (pending = <<>> /\ SelectSuggestionOf(s)) =>
            RenderCount(effects') = 1
       /\ (pending = <<EvUpdateValue("Address", s.combined)>>
             /\ UpdateValueOf("Address", s.combined)) =>
            RenderCount(effects') = 1
       /\ (pending = <<EvFetchSuggestions(s.combined)>>
             /\ RenderCount(effects) = 1
             /\ FetchSuggestionsOf(s.combined)) =>
            RenderCount(effects') = 1]_vars

\* C12: SuggestionsReceived(Error), from a response without a body or a
\* failed request, leaves the suggestion list empty, requests a render and
\* leaves the form as it is, whatever the list held and whether the form is
\* editing or locked.
C12_ErrorClearsList ==
  [][\A i \in 1..Len(inflight) : \A outcome \in HttpResults :
       (then_send(outcome).tag = "Error" /\ SuggestionsReceivedOf(i, outcome)) =>
          /\ suggestions' = <<>>
          /\ effects' = <<Render>>
          /\ pending' = <<>>
          /\ form' = form]_vars

\* A locked form whose list is empty after the older of two requests was
\* answered last
C12_Witness ==
  /\ ~form.is_editing
  /\ form.submitted
  /\ suggestions = <<>>
  /\ effects = <<Render>>
  /\ pending = <<>>
  /\ Len(inflight) = 1
  /\ inflight[1].superseded

\* C13: SuggestionsReceived(Success(list)) leaves the suggestion list equal
\* to list, element for element and in order, whatever it held and whatever
\* the address field holds, and requests a render.
C13_SuccessReplacesList ==
  [][\A i \in 1..Len(inflight) : \A list \in ResponseLists :
       SuggestionsReceivedOf(i, [ok |-> TRUE, body |-> Some(list)]) =>
          /\ suggestions' = list
          /\ effects' = <<Render>>
          /\ form' = form]_vars

\* The list holds a suggestion equal to the address the field holds
C13_Witness ==
  /\ form.is_editing
  /\ form.Address.value = Suggestion1.combined
  /\ suggestions = <<Suggestion2, Suggestion1>>
  /\ effects = <<Render>>
  /\ pending = <<>>

\* C14 as claimed: in the monolithic App, AddressSuggestionsReceived with
\* Success(list) leaves model.address_suggestions equal to list, whatever
\* the list and the address value.
C14_AppKeepsReceivedList ==
  [][\A i \in 1..Len(inflight) : \A list \in ResponseLists :
       App_AddressSuggestionsReceivedOf(i, [ok |-> TRUE, body |-> Some(list)]) =>
          suggestions' = list]_vars

\* C14 amended: it leaves model.address_suggestions equal to the received
\* list without the suggestions whose combined text equals the current
\* address value, the others in their order; so equal to the list when no
\* suggestion matches the address. A render is requested and the form is
\* unchanged.
C14_AppFiltersCurrentAddress ==
  [][\A i \in 1..Len(inflight) : \A list \in ResponseLists :
       App_AddressSuggestionsReceivedOf(i, [ok |-> TRUE, body |-> Some(list)]) =>
          /\ suggestions' =
               SelectSeq(list, LAMBDA x : x.combined # form.Address.value)
          /\ (\A k \in 1..Len(list) : list[k].combined # form.Address.value)
               => suggestions' = list
          /\ effects' = <<Render>>
          /\ form' = form]_vars

\* A list was received that held the address the field holds: the
\* matching suggestion is not on display, the other one is
C14_Witness ==
  /\ form.Address.value = Suggestion1.combined
  /\ suggestions = <<Suggestion2>>
  /\ effects = <<Render>>

\* C15: Edit, from any state, leaves submitted false, is_editing true and
\* every field's editing flag true, requests a render, and leaves every
\* field's value, initial_value, dirty, touched, valid and error as they
\* were.
C15_EditUnlocksAndKeepsFields ==
  [][Edit =>
       /\ ~form'.submitted
       /\ form'.is_editing
       /\ effects' = <<Render>>
       /\ pending' = <<>>
       /\ \A ident \in FieldIdent :
            /\ form'[ident].editing
            /\ form'[ident].value = form[ident].value
            /\ form'[ident].initial_value = form[ident].initial_value
            /\ form'[ident].dirty = form[ident].dirty
            /\ form'[ident].touched = form[ident].touched
            /\ form'[ident].valid = form[ident].valid
            /\ form'[ident].error = form[ident].error]_vars

\* A form opened again by Edit before any Submit: every field is in
\* editing, a changed field is still dirty and the fields never touched are
\* still untouched
C15_Witness ==
  /\ ~form.submitted
  /\ form.is_editing
  /\ \A ident \in FieldIdent : form[ident].editing
  /\ form.Username.dirty
  /\ \A ident \in FieldIdent : ~form[ident].touched
  /\ effects = <<Render>>
  /\ pending = <<>>

\* The form is submitted and locked
Locked == ~form.is_editing /\ form.submitted

\* C16 as claimed: every event other than Edit dispatched on a submitted
\* and locked form leaves it submitted and locked.
C16_OnlyEditUnlocks ==
  [][(Locked /\ (UpdateValue \/ TouchField \/ SetFieldEditing \/ Submit
                   \/ ResetForm \/ FetchSuggestions \/ SuggestionsReceived
                   \/ SelectSuggestion \/ ClearSuggestions)) =>
        (~form'.is_editing /\ form'.submitted)]_vars

\* C16 amended: every event other than Edit and ResetForm dispatched on a
\* submitted and locked form leaves it submitted and locked; Edit and
\* ResetForm both leave it open and not submitted.
C16_OnlyEditAndResetUnlock ==
  [][/\ (Locked /\ (UpdateValue \/ TouchField \/ SetFieldEditing \/ Submit
                      \/ FetchSuggestions \/ SuggestionsReceived
                      \/ SelectSuggestion \/ ClearSuggestions)) =>
           (~form'.is_editing /\ form'.submitted)
     /\ (Locked /\ (Edit \/ ResetForm)) =>
           (form'.is_editing /\ ~form'.submitted)]_vars

\* A locked form that took a response and shows its suggestions
C16_Witness ==
  /\ ~form.is_editing
  /\ form.submitted
  /\ suggestions # <<>>
  /\ effects = <<Render>>
  /\ pending = <<>>

C18_ResetClearsList ==
  [][/\ ResetForm =>
          /\ pending' = <<EvClearSuggestions>>
          /\ form' = Form_default
     /\ (pending = <<EvClearSuggestions>> /\ form = Form_default
           /\ ClearSuggestions) =>
          /\ suggestions' = <<>>
          /\ pending' = <<>>
          /\ form' = Form_default]_vars

\* The form has just been reset while suggestions were on display
C18_Witness ==
  /\ form = Form_default
  /\ pending = <<EvClearSuggestions>>
  /\ suggestions # <<>>
  /\ effects = <<Render>>

\* C19: Edit leaves the suggestion list empty, whatever it held and
\* whether the form was locked or open.
C19_EditClearsList ==
  [][Edit => suggestions' = <<>>]_vars

\* C20: SetFieldEditing{Address, editing = false} leaves the suggestion
\* list empty, whatever it held.
C20_AddressEditingOffClearsList ==
  [][SetFieldEditingOf("Address", FALSE) => suggestions' = <<>>]_vars

\* C21: while the form is locked no field is in editing: is_editing false
\* implies editing false for all four fields.
C21_LockedFormHasNoFieldEditing ==
  ~form.is_editing => \A ident \in FieldIdent : ~form[ident].editing

\* A locked form on display with suggestions, on which a request to turn
\* a field's editing on had no effect
C21_Witness ==
  /\ ~form.is_editing
  /\ form.submitted
  /\ suggestions # <<>>
  /\ effects = <<>>
  /\ pending = <<>>

\* C22: TouchField{field} on a locked form changes nothing, sends no event
\* and requests no effect; on an editing form it sets that field's touched
\* flag, sets its valid and error from its value, requests one render, and
\* leaves its value and dirty flag, every other field and the form's flags
\* as they were. The handler is stated for all four fields on every
\* reachable form, and every TouchField step taken is the handler's result.
C22_TouchField ==
  /\ [](\A ident \in FieldIdent :
          LET cmd == handle_touch_field(form, ident)
          IN  /\ ~form.is_editing => cmd = FormCmd(form, <<>>, <<>>)
              /\ form.is_editing =>
                   /\ cmd.form[ident].touched
                   /\ cmd.form[ident].valid = is_valid(ident, form[ident].value)
                   /\ cmd.form[ident].error = error_message(ident, form[ident].value)
                   /\ cmd.form[ident].value = form[ident].value
                   /\ cmd.form[ident].initial_value = form[ident].initial_value
                   /\ cmd.form[ident].dirty = form[ident].dirty
                   /\ cmd.form[ident].editing = form[ident].editing
                   /\ \A other \in FieldIdent \ {ident} : cmd.form[other] = form[other]
                   /\ cmd.form.submitted = form.submitted
                   /\ cmd.form.is_editing
                   /\ cmd.events = <<>>
                   /\ cmd.effects = <<Render>>)
  /\ [][\A ident \in FieldIdent :
          TouchFieldOf(ident) =>
            /\ form' = handle_touch_field(form, ident).form
            /\ pending' = <<>>
            /\ effects' = handle_touch_field(form, ident).effects
            /\ UNCHANGED <<suggestions, inflight>>]_vars

\* The empty address was touched on an otherwise untouched form: it now
\* carries the error its validation gives
C22_Witness ==
  /\ form.is_editing
  /\ form.Address.touched
  /\ form.Address.value = <<>>
  /\ ~form.Address.dirty
  /\ form.Address.error = Some("Field cannot be empty")
  /\ \A ident \in FieldIdent \ {"Address"} : ~form[ident].touched
  /\ form.Username.dirty
  /\ effects = <<Render>>
  /\ pending = <<>>

\* Age texts and the value each must give: Some(n) for a text that is an
\* unsigned 32-bit number n, None for any other text.
AgeCases ==
  { [raw |-> <<>>,                     value |-> None],
    [raw |-> <<"a","b","c">>,          value |-> None],
    [raw |-> <<"-","5">>,              value |-> None],
    [raw |-> <<"3","0","x">>,          value |-> None],
    [raw |-> <<"4","2","9","4","9","6","7","2","9","6">>, value |-> None],
    [raw |-> <<"0">>,                  value |-> Some([hi |-> 0, lo |-> 0])],
    [raw |-> <<"1","7">>,              value |-> Some([hi |-> 0, lo |-> 17])],
    [raw |-> <<"1","8">>,              value |-> Some([hi |-> 0, lo |-> 18])],
    [raw |-> <<"3","0">>,              value |-> Some([hi |-> 0, lo |-> 30])],
    [raw |-> <<"1","2","0">>,          value |-> Some([hi |-> 0, lo |-> 120])],
    [raw |-> <<"1","2","1">>,          value |-> Some([hi |-> 0, lo |-> 121])],
    [raw |-> <<"6","5","5","3","6">>,  value |-> Some([hi |-> 1, lo |-> 0])],
    [raw |-> <<"4","2","9","4","9","6","7","2","9","5">>,
     value |-> Some([hi |-> 65535, lo |-> 65535])] }

\* n is between 18 and 120, for a u32 n
InAgeRange(n) == n.hi = 0 /\ 18 <= n.lo /\ n.lo <= 120

\* C23: UpdateValue{Age, raw} on an editing form leaves the age value
\* Some(n) when raw is the unsigned 32-bit number n, valid exactly when n is
\* between 18 and 120 and otherwise with the error "Age must be between 18
\* and 120"; and leaves it None, valid with no error, when raw is not such
\* a number. The handler is stated for every case of AgeCases on every
\* reachable editing form.
C23_AgeParsedAndRanged ==
  form.is_editing =>
    \A case \in AgeCases :
      LET age == handle_update_value(form, "Age", case.raw).form.Age
      IN  /\ age.value = case.value
          /\ age.valid = (case.value.some => InAgeRange(case.value.val))
          /\ age.error = (IF age.valid THEN None
                          ELSE Some("Age must be between 18 and 120"))

\* An age below the range was typed
C23_Witness ==
  /\ form.is_editing
  /\ form.Age.value = Some([hi |-> 0, lo |-> 17])
  /\ ~form.Age.valid
  /\ form.Age.error = Some("Age must be between 18 and 120")
  /\ form.Age.dirty
  /\ effects = <<Render>>
  /\ pending = <<>>

\* The value UpdateValue stores in a field for a text
StoredValue(ident, value) == IF ident = "Age" THEN parse_u32(value) ELSE value

\* C24: UpdateValue on Username, Email or Age on an editing form stores
\* the new value in that field (for Age, the parsed text), leaves every
\* field's valid and error as its validation gives them, requests exactly
\* one render and no HTTP request and sends no event. The handler is stated
\* on every reachable editing form; and every step is either not such an
\* UpdateValue or leaves one render as the only effect, no event waiting
\* and the list and the outstanding requests as they were.
C24_PlainUpdateValidatesAndRenders ==
  /\ [](form.is_editing =>
          \A ident \in {"Username", "Email", "Age"} : \A value \in RawTexts(ident) :
            LET cmd == handle_update_value(form, ident, value)
            IN  /\ cmd.form[ident].value = StoredValue(ident, value)
                /\ \A other \in FieldIdent \ {ident} :
                     cmd.form[other].value = form[other].value
                /\ \A id \in FieldIdent :
                     /\ cmd.form[id].valid = is_valid(id, cmd.form[id].value)
                     /\ cmd.form[id].error = error_message(id, cmd.form[id].value)
                /\ cmd.effects = <<Render>>
                /\ cmd.events = <<>>)
  /\ [][\/ /\ effects' = <<Render>>
             /\ pending' = <<>>
             /\ UNCHANGED <<suggestions, inflight>>
          \/ ~ (/\ form.is_editing
                /\ UNCHANGED <<suggestions, inflight>>
                /\ \E ident \in {"Username", "Email", "Age"} :
                     \E value \in RawTexts(ident) : UpdateValueOf(ident, value))]_vars

\* A username was typed on the default form: the untouched empty address
\* carries the error its validation gives
C24_Witness ==
  /\ form.is_editing
  /\ form.Username.value = <<"U","s","e","r">>
  /\ form.Username.valid
  /\ ~form.Address.touched
  /\ form.Address.value = <<>>
  /\ form.Address.error = Some("Field cannot be empty")
  /\ effects = <<Render>>
  /\ pending = <<>>

\* The current form with its flags set as given: the forms, reachable or
\* not, on which the status message is computed
FlaggedForm(submitted, editing, dirty, valid) ==
  [form EXCEPT !.submitted = submitted, !.is_editing = editing,
               !.Username.dirty = FALSE, !.Email.dirty = FALSE,
               !.Age.dirty = dirty, !.Address.dirty = FALSE,
               !.Username.valid = valid, !.Email.valid = TRUE,
               !.Age.valid = TRUE, !.Address.valid = TRUE]

\* C25: the status message is decided by the first of these that holds:
\* submitted, the "Submitted" message; not editing, the "View only"
\* message; some field dirty, the "unsaved changes" message; form invalid,
\* the "correct the errors" message; otherwise the "fill out the form"
\* message. The initial form and the form after ResetForm show "Please
\* correct the errors."; a form opened again by Edit with changed values
\* shows "Form has unsaved changes".
C25_StatusMessage ==
  /\ [](/\ \A s \in BOOLEAN : \A e \in BOOLEAN : \A d \in BOOLEAN : \A v \in BOOLEAN :
             status_message(FlaggedForm(s, e, d, v)) =
               CASE s -> "Form Submitted Successfully!"
                 [] ~s /\ ~e -> "Form data (View only)"
                 [] ~s /\ e /\ d -> "Form has unsaved changes"
                 [] ~s /\ e /\ ~d /\ ~v -> "Please correct the errors."
                 [] ~s /\ e /\ ~d /\ v -> "Please fill out the form."
        /\ form.submitted => status_message(form) = "Form Submitted Successfully!"
        /\ (~form.submitted /\ form.is_editing
              /\ \E ident \in FieldIdent : form[ident].dirty) =>
             status_message(form) = "Form has unsaved changes"
        /\ (~form.submitted /\ form.is_editing
              /\ (\A ident \in FieldIdent : ~form[ident].dirty)
              /\ \E ident \in FieldIdent : ~form[ident].valid) =>
             status_message(form) = "Please correct the errors."
        /\ form = Form_default =>
             status_message(form) = "Please correct the errors.")
  /\ [][/\ ResetForm => status_message(form') = "Please correct the errors."
        /\ (Edit /\ \E ident \in FieldIdent : form[ident].dirty) =>
             status_message(form') = "Form has unsaved changes"]_vars

\* A submitted form opened again by Edit: it shows its changed values as
\* unsaved
C25_Witness ==
  /\ ~form.submitted
  /\ form.is_editing
  /\ \A ident \in FieldIdent : form[ident].editing /\ form[ident].touched
  /\ Form_is_valid(form)
  /\ form.Username.dirty
  /\ status_message(form) = "Form has unsaved changes"
  /\ effects = <<Render>>
  /\ pending = <<>>

\* C26: the view model's can_submit is is_editing and all four fields
\* valid, in every reachable state; it is false on the initial form and on
\* every submitted form.
C26_CanSubmit ==
  /\ view_can_submit(form) =
       (form.is_editing /\ \A ident \in FieldIdent : form[ident].valid)
  /\ form = Form_default => ~view_can_submit(form)
  /\ form.submitted => ~view_can_submit(form)

\* A submitted form, valid and locked, after its chain has ended
C26_Witness ==
  /\ form.submitted
  /\ Form_is_valid(form)
  /\ ~view_can_submit(form)
  /\ pending = <<>>
  /\ effects = <<Render, Render>>

\* C27: FetchSuggestions{query} requests exactly one HTTP GET of
\* api_url?query=query, whatever the query and whether the form is editing
\* or locked, and leaves the suggestion list and the form as they were.
C27_FetchIsUnconditional ==
  /\ [](\A query \in FetchQueries \cup RawTexts("Address") :
          handle_fetch_suggestions(suggestions, query) =
            AddrCmd(suggestions, <<>>,
                    << [kind |-> "Http", method |-> "GET",
                        url |-> api_url \o <<"?","q","u","e","r","y","=">> \o query] >>))
  /\ [][\A query \in FetchQueries \cup RawTexts("Address") :
          FetchSuggestionsOf(query) =>
            /\ Len(HttpEffects(effects')) = 1
            /\ HttpEffects(effects')[1].url =
                 api_url \o <<"?","q","u","e","r","y","=">> \o query
            /\ Len(inflight') = Len(inflight) + 1
            /\ suggestions' = suggestions
            /\ form' = form]_vars

\* A fetch was requested on a locked form that shows suggestions
C27_Witness ==
  /\ ~form.is_editing
  /\ form.submitted
  /\ suggestions # <<>>
  /\ pending = <<>>
  /\ \E query \in FetchQueries : effects = <<Http_get(fetch_url(query))>>

\* The event a resolution must become
ExpectedReceived(outcome) ==
  IF outcome.ok
    THEN IF outcome.body.some
           THEN [tag |-> "Success", list |-> outcome.body.val]
           ELSE [tag |-> "Error"]
    ELSE [tag |-> "Error"]

\* C28: every resolution of an outstanding request becomes one
\* SuggestionsReceived event, Success(list) for a response with a decoded
\* body and Error for a missing body or a failed request; one request is
\* resolved by it, and the state changes only as the handling of that event
\* changes it.
C28_ResolutionBecomesOneEvent ==
  /\ [](\A outcome \in HttpResults : then_send(outcome) = ExpectedReceived(outcome))
  /\ [][\A i \in 1..Len(inflight) : \A outcome \in HttpResults :
          SuggestionsReceivedOf(i, outcome) =>
            /\ Len(inflight') = Len(inflight) - 1
            /\ suggestions' =
                 handle_suggestions_received(suggestions,
                                             ExpectedReceived(outcome)).suggestions
            /\ effects' = <<Render>>
            /\ pending' = <<>>
            /\ form' = form]_vars

\* The only outstanding request was answered with one suggestion
C28_Witness ==
  /\ form.is_editing
  /\ suggestions = <<Suggestion1>>
  /\ inflight = <<>>
  /\ effects = <<Render>>
  /\ pending = <<>>

\* The form after Edit, UpdateValue of each field with a valid text, and
\* Submit, dispatched in this order on the form fm
Resubmitted(fm) ==
  LET f1 == handle_edit(fm).form
      f2 == handle_update_value(f1, "Username", <<"U","s","e","r">>).form
      f3 == handle_update_value(f2, "Email", <<"u","@","x",".","i","o">>).form
      f4 == handle_update_value(f3, "Age", <<"3","0">>).form
      f5 == handle_update_value(f4, "Address", Suggestion1.combined).form
  IN  handle_submit(f5).form

\* C29: from every reachable state the events Edit, UpdateValue of each
\* field with a valid text, and Submit leave the form submitted, whatever
\* errors the form holds, whatever the list holds and whatever requests are
\* outstanding.
C29_CanAlwaysResubmit ==
  /\ Resubmitted(form).submitted
  /\ ~Resubmitted(form).is_editing
  /\ Form_is_valid(Resubmitted(form))

\* A form corrected and submitted while a request older than one already
\* answered is still outstanding
C29_Witness ==
  /\ form.submitted
  /\ form.Username.value = <<"U","s","e","r">>
  /\ form.Email.value = <<"u","@","x",".","i","o">>
  /\ form.Age.value = Some([hi |-> 0, lo |-> 30])
  /\ form.Address.value = Suggestion1.combined
  /\ Len(inflight) >= 1
  /\ inflight[1].superseded
  /\ pending = <<>>

\* C30: whenever the address value is empty the address error is "Address
\* cannot be empty".
C30_EmptyAddressMessage ==
  form.Address.value = <<>> =>
    form.Address.error = Some("Address cannot be empty")

\* C31: FetchSuggestions, SuggestionsReceived and ClearSuggestions leave
\* the form as it was; UpdateValue, TouchField, SetFieldEditing, Submit,
\* Edit and ResetForm leave the suggestion list as it was; and of the events
\* a command sends, only ClearSuggestions changes the list when it is
\* dispatched.
C31_HandlersOwnDisjointState ==
  [][/\ \/ form' = form
        \/ ~ (FetchSuggestions \/ SuggestionsReceived \/ ClearSuggestions)
     /\ \/ suggestions' = suggestions
        \/ ~ (/\ inflight' = inflight
              /\ (UpdateValue \/ TouchField \/ SetFieldEditing
                    \/ Submit \/ Edit \/ ResetForm))
     /\ \/ suggestions' = suggestions
        \/ pending = <<>>
        \/ Head(pending) = EvClearSuggestions]_vars

\* Submit locked a form that shows suggestions: the list is as it was and
\* the ClearSuggestions it sent waits to be dispatched
C31_Witness ==
  /\ form.submitted
  /\ ~form.is_editing
  /\ suggestions = <<Suggestion2, Suggestion1>>
  /\ pending = <<EvClearSuggestions>>
  /\ effects = <<Render>>

\* C32: in every reachable state submitted is the negation of is_editing,
\* and the status message is never the "view only" message.
C32_SubmittedIffLocked ==
  /\ form.submitted = ~form.is_editing
  /\ status_message(form) # "Form data (View only)"

\* A locked form: it is submitted and shows the "Submitted" message, with
\* requests still outstanding
C32_Witness ==
  /\ form.submitted
  /\ ~form.is_editing
  /\ status_message(form) = "Form Submitted Successfully!"
  /\ inflight # <<>>
  /\ pending = <<>>

\* C33: in every reachable state a submitted form has all four fields
\* valid and without an error.
C33_SubmittedFormIsValid ==
  form.submitted =>
    \A ident \in FieldIdent : form[ident].valid /\ form[ident].error = None

\* A submitted form on which an update was refused: nothing is outstanding
\* and nothing was requested
C33_Witness ==
  /\ form.submitted
  /\ \A ident \in FieldIdent :
       form[ident].valid /\ form[ident].error = None /\ form[ident].touched
  /\ suggestions = <<>>
  /\ inflight = <<>>
  /\ effects = <<>>
  /\ pending = <<>>

\* C34: in every reachable state and for every field, valid is true exactly
\* when error is None; and is_valid and error_message agree in this way on
\* every text the shell sends and every age of AgeCases.
C34_ValidIffNoError ==
  /\ \A ident \in FieldIdent : form[ident].valid = (form[ident].error = None)
  /\ \A ident \in FieldIdent \ {"Age"} : \A v \in RawTexts(ident) :
       is_valid(ident, v) = (error_message(ident, v) = None)
  /\ \A case \in AgeCases :
       is_valid("Age", case.value) = (error_message("Age", case.value) = None)

\* A short username, a malformed email and an age out of range, each
\* invalid with its own error, beside an address that is valid with none
C34_Witness ==
  /\ form.Username.value = <<"U","s">>
  /\ form.Username.error = Some("Username must be at least 3 characters")
  /\ form.Email.value = <<"u","@","x">>
  /\ form.Email.error =
       Some("Please enter a valid email address (e.g. user@example.com)")
  /\ form.Age.error = Some("Age must be between 18 and 120")
  /\ form.Address.value = Suggestion1.combined
  /\ form.Address.error = None
  /\ \A ident \in FieldIdent : form[ident].valid = (ident = "Address")
  /\ pending = <<>>

\* C35: while the form is locked, every event other than Edit and
\* ResetForm leaves the whole form as it was. The handlers of UpdateValue,
\* TouchField, SetFieldEditing and Submit are stated for all four fields,
\* every text and both flags on every reachable locked form; and every step
\* taken on a locked form that is not Edit or ResetForm, the address events
\* and the events they chain included, leaves the form unchanged.
C35_LockedFormIsFrozen ==
  /\ [](~form.is_editing =>
          /\ handle_submit(form).form = form
          /\ \A ident \in FieldIdent :
               /\ handle_touch_field(form, ident).form = form
               /\ \A editing \in BOOLEAN :
                    handle_set_field_editing(form, ident, editing).form = form
               /\ \A value \in RawTexts(ident) :
                    handle_update_value(form, ident, value).form = form)
  /\ [][\/ form' = form
        \/ form.is_editing
        \/ Edit
        \/ ResetForm]_vars

\* A suggestion was selected on a locked form: the UpdateValue it sent
\* waits to be dispatched, with another address in the field
C35_Witness ==
  /\ form.submitted
  /\ ~form.is_editing
  /\ pending = <<EvUpdateValue("Address", Suggestion1.combined)>>
  /\ form.Address.value = Suggestion2.combined
  /\ suggestions = <<>>

\* The six properties of a field that an update of another field is to
\* leave alone
SameField(f, g) ==
  /\ f.value = g.value
  /\ f.initial_value = g.initial_value
  /\ f.touched = g.touched
  /\ f.dirty = g.dirty
  /\ f.valid = g.valid
  /\ f.error = g.error

\* C36: UpdateValue{f, raw} on an editing form leaves the value,
\* initial_value, touched, dirty, valid and error of every field other than
\* f as they were, from every reachable state.
C36_UpdateLeavesOtherFields ==
  [][\A ident \in FieldIdent :
       \/ \A other \in FieldIdent \ {ident} : SameField(form[other], form'[other])
       \/ ~ (/\ form.is_editing
             /\ \E value \in RawTexts(ident) : UpdateValueOf(ident, value))]_vars

\* C37: once a valid Submit and the ClearSuggestions it chains have been
\* processed the suggestion list is empty for as long as the form stays
\* locked, whatever responses are delivered; and a response delivered to
\* the form that ResetForm and its ClearSuggestions have just left does not
\* put suggestions on the list.
C37_ListStaysEmptyAfterSubmitAndReset ==
  /\ []((~form.is_editing /\ pending = <<>>) => suggestions = <<>>)
  /\ [][(/\ form = Form_default
         /\ effects = <<Render, Render>>
         /\ pending = <<>>
         /\ SuggestionsReceived) => suggestions' = <<>>]_vars

\* The chain of a selection on an editing form has ended: the two renders
\* of SelectSuggestion and of the UpdateValue it sent come first among the
\* effects, the address holds a suggestion's text and no event waits
SelectionDone ==
  /\ pending = <<>>
  /\ form.is_editing
  /\ form.Address.value \in {s.combined : s \in Catalogue}
  /\ Len(effects) >= 2
  /\ effects[1] = Render
  /\ effects[2] = Render

\* C38: when the chain of a selection has ended no HTTP request is among
\* the effects it produced, and a response delivered next leaves the
\* suggestion list empty.
C38_SelectionDismissesList ==
  /\ [](SelectionDone => HttpEffects(effects) = <<>>)
  /\ [][(SelectionDone /\ SuggestionsReceived) => suggestions' = <<>>]_vars

\* The follow-up events that an event sent by a command can still cause
ChainRank(ev) == IF ev.type = "UpdateValue" THEN 1 ELSE 0

\* C39: the processing of one inbound event ends. Each handler sends at
\* most one event: SelectSuggestion sends UpdateValue{Address},
\* UpdateValue{Address} sends FetchSuggestions, Submit and ResetForm send
\* ClearSuggestions, and nothing else sends anything; at most one event
\* waits, each event a command sends can cause fewer follow-ups than the one
\* before it, so that an inbound event has at most 2 follow-ups; the effects
\* of one inbound event and its chain hold at most one HTTP request; and
\* whenever an event waits, the chain comes to its end.
C39_ChainsTerminate ==
  /\ [](/\ Len(pending) <= 1
        /\ Len(HttpEffects(effects)) <= 1
        /\ Len(effects) <= 3
        /\ handle_submit(form).events \in {<<>>, <<EvClearSuggestions>>}
        /\ handle_reset(form).events = <<EvClearSuggestions>>
        /\ handle_edit(form).events = <<>>
        /\ handle_clear_suggestions(suggestions).events = <<>>
        /\ \A ident \in FieldIdent :
             /\ handle_touch_field(form, ident).events = <<>>
             /\ \A editing \in BOOLEAN :
                  handle_set_field_editing(form, ident, editing).events = <<>>
             /\ \A value \in RawTexts(ident) :
                  handle_update_value(form, ident, value).events =
                    IF ident = "Address" /\ form.is_editing
                      THEN <<EvFetchSuggestions(value)>> ELSE <<>>
        /\ \A query \in FetchQueries \cup RawTexts("Address") :
             handle_fetch_suggestions(suggestions, query).events = <<>>
        /\ \A outcome \in HttpResults :
             handle_suggestions_received(suggestions, then_send(outcome)).events = <<>>
        /\ \A sg \in Catalogue :
             handle_select_suggestion(suggestions, sg).events =
               <<EvUpdateValue("Address", sg.combined)>>)
  /\ [][\/ pending' = <<>>
        \/ /\ Len(pending') = 1
           /\ \/ pending = <<>>
              \/ ChainRank(pending'[1]) < ChainRank(pending[1])]_vars
  /\ (pending # <<>>) ~> (pending = <<>>)

\* The longest chain has ended: a selection, the update it sent and the
\* fetch that the update sent left two renders and one request
C39_Witness ==
  /\ pending = <<>>
  /\ form.Address.value = Suggestion1.combined
  /\ effects = <<Render, Render, Http_get(fetch_url(Suggestion1.combined))>>
  /\ inflight # <<>>

====
